---- MODULE Spec2Model ----
(***************************************************************************)
(* Model of transs.py, the Transmission RSS feeder: one invocation of      *)
(* main() loads the ledger file added.txt and the filter file filter.txt,  *)
(* fetches the feed and walks its entries in order; the files and the      *)
(* download service outlive the invocation, so several invocations are     *)
(* modelled one after the other.                                           *)
(*                                                                         *)
(* Strings are sequences of one-character strings, files are texts with    *)
(* explicit newline characters.                                            *)
(***************************************************************************)
EXTENDS Integers, Sequences, FiniteSets, TLC

\* ------------------------------------------------------------------ bounds
MaxEntries == 2     \* longest feed
MaxRuns == 2        \* invocations of the program in one behaviour
MaxTime == 1        \* the clock and the publication times range over 0..MaxTime

\* ------------------------------------------------------------ input alphabet
NL == "\n"

Links == { <<"a">>, <<"a", "b">> }
Titles == { <<"u">>, <<"m", "u">> }
Times == 0..MaxTime
Ages == {0}

\* publication times: the earliest and the latest clock reading
Published == {0, MaxTime}

Items == [link : Links, title : Titles, published_parsed : Published]

Feeds == UNION { [1..n -> Items] : n \in 0..MaxEntries }

NoFile == [exists |-> FALSE, text |-> <<>>]

TextFile(t) == [exists |-> TRUE, text |-> t]

\* added.txt as left by earlier invocations: absent, or one written record
LedgerFiles == {NoFile, TextFile(<<"a", NL>>)}

\* filter.txt as written by the operator: absent, empty, or one pattern per
\* line, the last line with or without its newline; "(" alone does not
\* compile as a regular expression
FilterFiles ==
    { NoFile,
      TextFile(<<>>),
      TextFile(<<"u">>),
      TextFile(<<"m", "m", NL, "u", NL>>),
      TextFile(<<"(", NL>>) }

\* ------------------------------------------------------------ pure functions

\* mutant of sec_diff: the operands of the subtraction exchanged
sec_diff_swapped(utcnow, time_tuple) == time_tuple - utcnow

\* sec_diff: seconds between the clock reading and a point in time
sec_diff(utcnow, time_tuple) == utcnow - time_tuple

\* "for line in f": the text cut after every newline, the newline kept;
\* a last line without a newline is a line too
RECURSIVE file_lines(_, _)
file_lines(text, cur) ==
    IF text = <<>>
    THEN IF cur = <<>> THEN <<>> ELSE <<cur>>
    ELSE IF Head(text) = NL
         THEN <<Append(cur, NL)>> \o file_lines(Tail(text), <<>>)
         ELSE file_lines(Tail(text), Append(cur, Head(text)))

\* str.rstrip('\n')
RECURSIVE rstrip_nl(_)
rstrip_nl(line) ==
    IF line # <<>> /\ line[Len(line)] = NL
    THEN rstrip_nl(SubSeq(line, 1, Len(line) - 1))
    ELSE line

\* mutant of load_text: the newline is left on every line
load_text_keep_newline(file) ==
    IF file.exists THEN file_lines(file.text, <<>>) ELSE <<>>

\* load_text: the lines of the file, or the empty list when it is absent
load_text(file) ==
    IF file.exists
    THEN LET raw == file_lines(file.text, <<>>)
         IN  [k \in 1..Len(raw) |-> rstrip_nl(raw[k])]
    ELSE <<>>

\* re.compile: fails on a malformed pattern
compiles(f) == f # <<"(">>

\* mutant of regex_match: regex.search, the pattern is looked for anywhere
regex_search(regex, string) ==
    \E k \in 0..Len(string) :
        /\ k + Len(regex) <= Len(string)
        /\ SubSeq(string, k + 1, k + Len(regex)) = regex

\* regex.match for a literal pattern: the pattern is matched at the start
\* of the string, character by character
RECURSIVE regex_match(_, _)
regex_match(regex, string) ==
    IF regex = <<>> THEN TRUE
    ELSE IF string = <<>> THEN FALSE
    ELSE Head(regex) = Head(string) /\ regex_match(Tail(regex), Tail(string))

Range(s) == { s[k] : k \in 1..Len(s) }

\* "for f in filters: compiled_filters.append(re.compile(f))": the filters
\* compiled before the first malformed one, and whether all compiled
RECURSIVE compile_filters(_)
compile_filters(filters) ==
    IF filters = <<>> THEN [ok |-> TRUE, compiled |-> <<>>]
    ELSE IF ~compiles(Head(filters)) THEN [ok |-> FALSE, compiled |-> <<>>]
    ELSE LET rest == compile_filters(Tail(filters))
         IN  [ok |-> rest.ok, compiled |-> <<Head(filters)>> \o rest.compiled]

\* The outcomes of one add_torrent call: both steps succeed, the download
\* service raises, or the service accepts and writing added.txt raises
Outcomes == {"ok", "submit_fail", "append_fail"}

\* The outcomes of the add_torrent calls of one iteration, in call order: a
\* call that raises is the last one
OutcomeRuns ==
    { <<o>> : o \in Outcomes \ {"ok"} } \cup { <<"ok", o>> : o \in Outcomes }

\* mutant of add_torrent: added.txt is written before the link is submitted
add_torrent_append_first(tc_, file, item, outcome) ==
    IF outcome = "append_fail"
    THEN [tc |-> tc_, added_file |-> file, raised |-> TRUE]
    ELSE LET written == TextFile(file.text \o item.link \o <<NL>>)
         IN  IF outcome = "submit_fail"
             THEN [tc |-> tc_, added_file |-> written, raised |-> TRUE]
             ELSE [tc |-> Append(tc_, item.link), added_file |-> written,
                   raised |-> FALSE]

\* add_torrent: submit the link to the download service, then append the
\* link and a newline to added.txt (created when absent); an exception ends
\* the call where it is raised
add_torrent(tc_, file, item, outcome) ==
    IF outcome = "submit_fail"
    THEN [tc |-> tc_, added_file |-> file, raised |-> TRUE]
    ELSE LET sent == Append(tc_, item.link)
         IN  IF outcome = "append_fail"
             THEN [tc |-> sent, added_file |-> file, raised |-> TRUE]
             ELSE [tc |-> sent,
                   added_file |-> TextFile(file.text \o item.link \o <<NL>>),
                   raised |-> FALSE]

\* mutant of add_and_count: the link is also put into added_items
add_and_count_remember(s, item, outcome) ==
    LET w == add_torrent(s.tc, s.added_file, item, outcome)
    IN  IF w.raised
        THEN [s EXCEPT !.tc = w.tc, !.added_file = w.added_file, !.raised = TRUE]
        ELSE [s EXCEPT !.tc = w.tc, !.added_file = w.added_file, !.new = @ + 1,
                       !.added_items = Append(@, item.link)]

\* "add_torrent(tc, item, args.paused); new += 1": the counter is reached
\* only when the call returns
add_and_count(s, item, outcome) ==
    LET w == add_torrent(s.tc, s.added_file, item, outcome)
    IN  IF w.raised
        THEN [s EXCEPT !.tc = w.tc, !.added_file = w.added_file, !.raised = TRUE]
        ELSE [s EXCEPT !.tc = w.tc, !.added_file = w.added_file, !.new = @ + 1]

\* "if torrent_age > args.age"
too_old(torrent_age, age) == torrent_age > age

\* mutant of already_added: the title is looked up instead of the link
already_added_by_title(item, items) == item.title \in Range(items)

\* "if item.link in added_items"
already_added(item, items) == item.link \in Range(items)

\* "for regex in compiled_filters: if regex.match(item.title)": whether the
\* loop over a non-empty filter list reaches a matching filter
filter_hit(filters, item) ==
    /\ Len(filters) > 0
    /\ \E k \in 1..Len(filters) : regex_match(filters[k], item.title)

\* The body of "for item in feed.entries" on one item: s holds the locals of
\* main and the two stores, t is the clock reading of sec_diff, os holds
\* the outcomes of the add_torrent calls (lines 233 and 245) in call order
loop_body(s, item, t, os) ==
    LET torrent_age == sec_diff(t, item.published_parsed)
    IN  IF too_old(torrent_age, s.age)
        THEN [s EXCEPT !.aged = @ + 1]
        ELSE IF already_added(item, s.added_items)
        THEN [s EXCEPT !.old = @ + 1]
        ELSE LET hit == filter_hit(s.compiled_filters, item)
                 s1 == IF hit THEN add_and_count(s, item, os[1]) ELSE s
                 okay == hit
             IN  IF s1.raised THEN s1
                 ELSE IF ~okay
                 THEN [s1 EXCEPT !.filtered = @ + 1]
                 ELSE add_and_count(s1, item, os[2])

\* ---------------------------------------------------------------- state
VARIABLES
    pc,                \* "start", "loop", "done" (summary logged), "exit"
                       \* (exit(0)), "return" (feed error), "crashed"
    run,               \* number of the current invocation
    utcnow,            \* the clock
    feed,              \* feed.entries, the same snapshot in every invocation
    added_file,        \* added.txt
    filter_file,       \* filter.txt
    tc,                \* the client of the download service: the links it
                       \* has submitted successfully in this invocation
    args_age,          \* args.age
    added_items,       \* main: added_items
    compiled_filters,  \* main: compiled_filters
    i,                 \* position of the loop in feed.entries
    aged, old, new, filtered,   \* main: the statistical values
    start_file,        \* history: added.txt as it was when main loaded it
    hist,              \* history: what the loop did on each item it visited
    earlier            \* history: links submitted successfully by earlier
                       \* invocations that logged the summary

vars == <<pc, run, utcnow, feed, added_file, filter_file, tc, args_age,
          added_items, compiled_filters, i, aged, old, new, filtered,
          start_file, hist, earlier>>

files == <<added_file, filter_file>>
locals == <<args_age, added_items, compiled_filters, i, aged, old, new, filtered>>
history == <<start_file, hist, earlier>>

Init ==
    /\ pc = "start"
    /\ run = 1
    /\ utcnow = 0
    /\ feed \in Feeds
    /\ added_file \in LedgerFiles
    /\ filter_file \in FilterFiles
    /\ tc = <<>>
    /\ args_age = 0
    /\ added_items = <<>>
    /\ compiled_filters = <<>>
    /\ i = 0
    /\ aged = 0 /\ old = 0 /\ new = 0 /\ filtered = 0
    /\ start_file = NoFile
    /\ hist = <<>>
    /\ earlier = {}

\* main up to the loop: connect, load both files, compile the filters, fetch
\* the feed, zero the statistics
main_setup ==
    /\ pc = "start"
    /\ \E connect_ok \in BOOLEAN, feed_ok \in BOOLEAN, a \in Ages :
        LET filters == load_text(filter_file)
            c == compile_filters(filters)
        IN  /\ args_age' = a
            /\ IF ~connect_ok
               THEN /\ pc' = "exit"
                    /\ UNCHANGED <<added_items, compiled_filters, i, start_file>>
               ELSE /\ added_items' = load_text(added_file)
                    /\ start_file' = added_file
                    /\ compiled_filters' = c.compiled
                    /\ IF ~c.ok THEN pc' = "crashed" /\ i' = i
                       ELSE IF ~feed_ok THEN pc' = "return" /\ i' = i
                       ELSE pc' = "loop" /\ i' = 1
    /\ UNCHANGED <<run, utcnow, feed, files, tc, aged, old, new, filtered, hist, earlier>>

\* one iteration of "for item in feed.entries"
main_loop ==
    /\ pc = "loop"
    /\ i <= Len(feed)
    /\ \E t \in {utcnow, utcnow + 1} \cap Times, os \in OutcomeRuns :
        LET item == feed[i]
            s == [age |-> args_age, added_items |-> added_items,
                  compiled_filters |-> compiled_filters,
                  aged |-> aged, old |-> old, new |-> new, filtered |-> filtered,
                  tc |-> tc, added_file |-> added_file, raised |-> FALSE]
            r == loop_body(s, item, t, os)
            sent == Len(r.tc) - Len(tc)
        IN  /\ utcnow' = t
            /\ added_items' = r.added_items
            /\ aged' = r.aged /\ old' = r.old /\ new' = r.new /\ filtered' = r.filtered
            /\ tc' = r.tc
            /\ added_file' = r.added_file
            /\ IF r.raised THEN pc' = "crashed" /\ i' = i
                           ELSE pc' = "loop" /\ i' = i + 1
            /\ hist' = Append(hist,
                   [utcnow |-> t,
                    aged |-> r.aged - aged, old |-> r.old - old,
                    new |-> r.new - new, filtered |-> r.filtered - filtered,
                    submitted |-> sent,
                    appended |-> Len(load_text(r.added_file)) - Len(load_text(added_file)),
                    raised |-> r.raised])
    /\ UNCHANGED <<run, feed, filter_file, args_age, compiled_filters, start_file, earlier>>

\* the loop is over: the summary is logged
main_summary ==
    /\ pc = "loop"
    /\ i > Len(feed)
    /\ pc' = "done"
    /\ UNCHANGED <<run, utcnow, feed, files, tc, locals, history>>

\* the program is started again (it is run periodically): a fresh process
invoke ==
    /\ pc \in {"done", "exit", "return", "crashed"}
    /\ run < MaxRuns
    /\ run' = run + 1
    /\ pc' = "start"
    /\ args_age' = 0
    /\ added_items' = <<>>
    /\ compiled_filters' = <<>>
    /\ i' = 0
    /\ aged' = 0 /\ old' = 0 /\ new' = 0 /\ filtered' = 0
    /\ tc' = <<>>
    /\ start_file' = NoFile
    /\ hist' = <<>>
    /\ earlier' = IF pc = "done" THEN earlier \cup Range(tc) ELSE earlier
    /\ UNCHANGED <<utcnow, feed, files>>

Next == main_setup \/ main_loop \/ main_summary \/ invoke

Spec == Init /\ [][Next]_vars

\* ------------------------------------------------- vocabulary of the claims

\* the items the loop of this invocation has visited, the last one perhaps
\* left by an exception
Visited == 1..Len(hist)

\* now minus published_at, with the clock reading taken for item k
Age(k) == hist[k].utcnow - feed[k].published_parsed

PassesAge(k) == Age(k) <= args_age

\* the identifiers recorded in a ledger text: its newline-terminated records
Records(text) ==
    { SubSeq(text, a, b - 1) :
        <<a, b>> \in { <<a, b>> \in (1..Len(text)) \X (1..Len(text)) :
                        /\ a <= b
                        /\ text[b] = NL
                        /\ a = 1 \/ text[a - 1] = NL
                        /\ \A j \in a..(b - 1) : text[j] # NL } }

\* main has loaded added.txt
Loaded == pc \in {"loop", "done", "return", "crashed"}

\* the identifier of item k is in the ledger as it was at run start
InLedger(k) == feed[k].link \in Records(start_file.text)

\* pattern p matches string str from its start
PrefixOf(p, str) == Len(p) <= Len(str) /\ SubSeq(str, 1, Len(p)) = p

\* pattern p occurs somewhere in string str
OccursIn(p, str) ==
    \E a \in 1..(Len(str) + 1) :
        a + Len(p) - 1 <= Len(str) /\ SubSeq(str, a, a + Len(p) - 1) = p

RuleSetEmpty == compiled_filters = <<>>

SomeRuleMatches(k) ==
    \E j \in 1..Len(compiled_filters) : PrefixOf(compiled_filters[j], feed[k].title)

\* the summary counters item k incremented
Counted(k) == { c \in {"aged", "old", "new", "filtered"} : hist[k][c] > 0 }

\* item k incremented counter c once and no other counter
CountedOnly(k, c) ==
    /\ Counted(k) = {c}
    /\ hist[k][c] = 1

NoSideEffect(k) == hist[k].submitted = 0 /\ hist[k].appended = 0

\* the add_torrent call that ended item k was refused by the download service
SubmissionFailed(k) == hist[k].raised /\ hist[k].submitted = hist[k].appended

\* ------------------------------------------------------------------ claims

\* C1: with an empty Rule Set every item that passes the age check and the
\* duplicate check is Accepted: submitted, appended to the ledger, counted as
\* new and never counted as filtered.
C1_EmptyRuleSetAccepts ==
    \A k \in Visited :
        (RuleSetEmpty /\ PassesAge(k) /\ ~InLedger(k) /\ ~hist[k].raised)
            => /\ CountedOnly(k, "new")
               /\ hist[k].submitted = 1
               /\ hist[k].appended = 1

\* C2: when the summary is reached the four counters add up to the number
\* of feed entries.
C2_CountersSumToEntries ==
    pc = "done" => aged + old + filtered + new = Len(feed)

\* C3: an Accepted item causes exactly one submission and exactly one ledger
\* append; an item with any other classification causes none.
C3_OneSubmissionOneAppend ==
    \A k \in Visited :
        ~hist[k].raised =>
            IF hist[k].new > 0
            THEN hist[k].submitted = 1 /\ hist[k].appended = 1
            ELSE NoSideEffect(k)

\* C4: an item whose age is strictly greater than the threshold is Aged and
\* only Aged, whatever the ledger and the rules say, and is neither submitted
\* nor appended.
C4_OldItemsAreAged ==
    \A k \in Visited :
        Age(k) > args_age
            => /\ CountedOnly(k, "aged")
               /\ NoSideEffect(k)
               /\ ~hist[k].raised

\* C4 witness: an over-age item whose link is in the ledger and whose title
\* a rule matches has been visited.
C4_Witness ==
    \E k \in Visited :
        /\ Age(k) > args_age
        /\ InLedger(k)
        /\ SomeRuleMatches(k)
        /\ hist[k].aged = 1

\* C5: an item that passes the age check and whose link is in the ledger as
\* loaded at run start is AlreadyProcessed, even when a rule matches, and is
\* neither submitted nor appended.
C5_LedgerItemsAreOld ==
    \A k \in Visited :
        (PassesAge(k) /\ InLedger(k))
            => /\ CountedOnly(k, "old")
               /\ NoSideEffect(k)
               /\ ~hist[k].raised

\* C5 witness: a fresh item in the ledger whose title a rule matches has
\* been visited.
C5_Witness ==
    \E k \in Visited :
        /\ PassesAge(k)
        /\ InLedger(k)
        /\ SomeRuleMatches(k)
        /\ hist[k].old = 1

\* C6: with a non-empty Rule Set an item that passes the age and duplicate
\* checks is Accepted if and only if some rule matches its title from the
\* start; when no rule matches it is Filtered and is neither submitted nor
\* appended.
C6_AcceptedIffRuleMatches ==
    \A k \in Visited :
        (~RuleSetEmpty /\ PassesAge(k) /\ ~InLedger(k))
            => /\ ~hist[k].raised => (hist[k].new > 0 <=> SomeRuleMatches(k))
               /\ hist[k].submitted > 0 => SomeRuleMatches(k)
               /\ SomeRuleMatches(k) => hist[k].filtered = 0
               /\ ~SomeRuleMatches(k)
                    => CountedOnly(k, "filtered") /\ NoSideEffect(k) /\ ~hist[k].raised

\* C6 witness: under a non-empty Rule Set one fresh unknown item has been
\* accepted and another, whose title holds a pattern but not at its start,
\* has been filtered.
C6_Witness ==
    /\ ~RuleSetEmpty
    /\ \E j \in Visited, k \in Visited :
        /\ PassesAge(j) /\ ~InLedger(j) /\ SomeRuleMatches(j)
        /\ hist[j].new > 0 /\ hist[j].submitted > 0
        /\ PassesAge(k) /\ ~InLedger(k) /\ ~SomeRuleMatches(k)
        /\ \E r \in Range(compiled_filters) : OccursIn(r, feed[k].title)
        /\ hist[k].filtered = 1

\* C7: a link accepted by an earlier run that completed is not submitted
\* again by a later run on the same feed with the ledger that run left: its
\* items are AlreadyProcessed or Aged.
C7_NoResubmissionAcrossRuns ==
    \A k \in Visited :
        feed[k].link \in earlier
            => /\ NoSideEffect(k)
               /\ ~hist[k].raised
               /\ CountedOnly(k, "old") \/ CountedOnly(k, "aged")

\* C7 witness: a later run has visited an item whose link an earlier run
\* accepted but which was not in the ledger before that run.
C7_Witness ==
    /\ run > 1
    /\ \E k \in Visited :
        /\ feed[k].link \in earlier
        /\ feed[k].link # <<"a">>
        /\ hist[k].old = 1

\* C8: a submission the download service refuses does not abort the run.
C8_FailureDoesNotAbort ==
    \A k \in Visited : SubmissionFailed(k) => pc # "crashed"

\* C9: a link is appended to the ledger only after a submission of that link
\* has succeeded; an item whose submission was refused is not appended.
C9_AppendOnlyAfterSubmission ==
    /\ \A k \in Visited : hist[k].appended <= hist[k].submitted
    /\ Loaded =>
          Records(added_file.text) \subseteq Records(start_file.text) \cup Range(tc)

\* C9 witness: the only submission of an item was refused and its link is
\* absent from the ledger.
C9_Witness ==
    /\ pc = "crashed"
    /\ hist # <<>>
    /\ SubmissionFailed(Len(hist))
    /\ hist[Len(hist)].submitted = 0
    /\ feed[Len(hist)].link \notin Records(added_file.text)

====
